---- MODULE Spec2Model ----
(***************************************************************************)
(* The API gateway of src/api-gateway/src/server.js as a state machine.    *)
(*                                                                         *)
(* A request walks the middleware stack in the order server.js mounts it:  *)
(* cors (23), helmet (24), express.json (25), the rate limiter (29-46),    *)
(* the logging middleware (49-53), then the first matching mount           *)
(* (71-161): validateToken where it is mounted, then the express-http-     *)
(* proxy handler built from proxyOptions and the mount's own options.      *)
(* The Redis store of the rate limiter is the only state shared between    *)
(* requests.                                                               *)
(***************************************************************************)
EXTENDS Integers, Sequences, FiniteSets, TLC

VARIABLES
    store,      \* Redis: rate-limit key (req.ip) -> hit count; 0 = no such key
    hits,       \* history: admission checks per key since its window began
    req,        \* per slot: the inbound request being processed
    pc,         \* per slot: position of the request in the middleware stack
    user,       \* per slot: req.user, set by validateToken
    bodyRead,   \* per slot: express.json consumed the request stream
    checks,     \* per slot, history: times the rate limiter ran for the request
    admitted,   \* per slot, history: the rate limiter called next()
    validated,  \* per slot, history: validateToken called next()
    out,        \* per slot: the outbound backend request, None before it is sent
    calls,      \* per slot, history: outbound backend calls started
    overrun,    \* history: the key's previous window ended above max
    fault,      \* per slot, history: the transport error of the backend call
    proxyRes,   \* per slot: the status code of the backend's answer, 0 before
    resp,       \* per slot: the response sent to the caller, None before
    nresp       \* per slot, history: responses sent for the request

vars == <<store, hits, overrun, req, pc, user, bodyRead, checks, admitted,
          validated, out, calls, fault, proxyRes, resp, nresp>>

(***************************************************************************)
(* Bounds of the model.                                                    *)
(***************************************************************************)
\* Spec: admission checks per key and window the model lets arrive
HitCap == 2
\* SpecLoad: admission checks per key and window the model lets arrive
LoadCap == 2
\* SpecQuota: how many admission checks beyond max the model lets arrive
MaxOver == 2
\* request slots; Spec and SpecQuota process one request at a time, SpecLoad
\* two
Slots == {"r1", "r2"}
IPs == {"ip1", "ip2"}
Users == {"u1", "u2"}

(***************************************************************************)
(* Strings that the code matches or rewrites are sequences of characters.  *)
(***************************************************************************)
V1 == <<"/", "v", "1">>
Api == <<"/", "a", "p", "i">>
PfxAuth == V1 \o <<"/", "a", "u", "t", "h">>
PfxPosts == V1 \o <<"/", "p", "o", "s", "t", "s">>
PfxMedia == V1 \o <<"/", "m", "e", "d", "i", "a">>
PfxSearch == V1 \o <<"/", "s", "e", "a", "r", "c", "h">>
PfxProfile == V1 \o <<"/", "p", "r", "o", "f", "i", "l", "e">>

\* /v1/auth, /v1/posts/42?x=1, /v1/media, /v1/search?q=/v1, /v1/profile/v1,
\* /V1/posts/42, /v1/postsx
UrlAuth == PfxAuth
UrlPosts == PfxPosts \o <<"/", "4", "2", "?", "x", "=", "1">>
UrlMedia == PfxMedia
UrlSearch == PfxSearch \o <<"?", "q", "=">> \o V1
UrlProfile == PfxProfile \o V1
UrlUpper == <<"/", "V", "1">> \o SubSeq(PfxPosts, 4, 9) \o <<"/", "4", "2">>
UrlOther == PfxPosts \o <<"x">>
Urls == {UrlAuth, UrlPosts, UrlMedia, UrlSearch, UrlProfile, UrlUpper, UrlOther}

None == [none |-> TRUE]

(***************************************************************************)
(* Header values are sequences of tokens: the media type first, then its   *)
(* parameters.  Absent is a header the request does not carry (undefined   *)
(* in srcReq.headers).                                                     *)
(***************************************************************************)
Absent == <<>>
CtJson == <<"application/json">>
CtMultipart == <<"multipart/form-data", "; boundary=X">>
CtText == <<"text/plain">>
ContentTypes == {Absent, CtJson, CtMultipart, CtText}

\* String.prototype.startsWith on a header value, at token granularity
StartsWith(value, token) == Len(value) >= 1 /\ value[1] = token

\* request bodies: no body, a JSON text, bytes that are no JSON text
Bodies == {"none", "json", "bytes"}

\* the authorization header: absent, or a bearer token of some kind for a
\* subject
NoCred == [kind |-> "none", sub |-> "-"]
Credentials ==
    {NoCred} \cup {[kind |-> k, sub |-> "u1"] : k \in {"malformed", "invalid", "expired"}}
             \cup {[kind |-> "valid", sub |-> u] : u \in Users}

\* OPTIONS is the method cors() answers itself
Methods == {"POST", "OPTIONS"}

\* every inbound request of the model
Requests ==
    [ip : IPs, method : Methods, url : Urls, cred : Credentials,
     ct : ContentTypes, body : Bodies, xuid : {Absent, <<"u2">>}]

\* the requests of SpecQuota: one client address, every url, with no, an
\* expired and a valid credential
QuotaRequests ==
    [ip : {"ip1"}, method : {"POST"}, url : Urls,
     cred : {NoCred, [kind |-> "expired", sub |-> "u1"], [kind |-> "valid", sub |-> "u1"]},
     ct : {CtJson}, body : {"json"}, xuid : {Absent}]

\* the requests of SpecLoad: two client addresses, two authenticated routes,
\* two subjects, with and without an x-user-id header of the client's own
LoadRequests ==
    [ip : IPs, method : {"POST"}, url : {UrlPosts, UrlMedia},
     cred : {[kind |-> "valid", sub |-> u] : u \in Users},
     ct : {CtJson}, body : {"json"}, xuid : {Absent, <<"u2">>}]

\* the requests of SpecPair: one client address, the four authenticated
\* routes, two subjects, and every x-user-id header a client can send
PairRequests ==
    [ip : {"ip1"}, method : {"POST"},
     url : {UrlPosts, UrlMedia, UrlSearch, UrlProfile},
     cred : {[kind |-> "valid", sub |-> u] : u \in Users},
     ct : {CtJson}, body : {"json"}, xuid : {Absent, <<"u1">>, <<"u2">>}]

\* what a backend answers, and how a backend call fails in transport
BackendStatuses == {200, 404, 500}
TransportErrors == {"ECONNREFUSED", "ETIMEDOUT"}

(***************************************************************************)
(* Pure functions of the pipeline.                                         *)
(***************************************************************************)
\* rateLimit({windowMs, max, ...}): the quota of one window
max == 100

\* express-rate-limit: no keyGenerator is configured, the key is req.ip
keyGeneratorGlobal(q) == "ip1"
keyGenerator(q) == q.ip

\* express-rate-limit: the handler runs when totalHits exceeds max
ExceedsAtOrAbove(totalHits) == totalHits >= max
Exceeds(totalHits) == totalHits > max

\* RedisStore.increment: an atomic INCR of the key (the script also sets the
\* key's expiry when it has none); returns the store after it
IncrementOnce(s, key) == [s EXCEPT ![key] = 1]
Increment(s, key) == [s EXCEPT ![key] = @ + 1]

\* handler of rateLimitOptions
rateLimitHandlerUnavailable ==
    [by |-> "rateLimit", status |-> 503, success |-> "false",
     message |-> "Too many requests", error |-> "-"]
rateLimitHandler ==
    [by |-> "rateLimit", status |-> 429, success |-> "false",
     message |-> "Too many requests", error |-> "-"]

\* cors(): the answer to a preflight request
corsPreflight ==
    [by |-> "cors", status |-> 204, success |-> "-", message |-> "-", error |-> "-"]

\* express's final handler: no mount matched
notFound ==
    [by |-> "finalhandler", status |-> 404, success |-> "-", message |-> "-",
     error |-> "-"]

\* errorHandler, the error boundary (spec 4.5)
errorHandler(err) ==
    [by |-> "errorHandler", status |-> 500, success |-> "-",
     message |-> "Internal server error", error |-> err]

\* validateToken's rejection (spec 4.2, 6)
unauthorized ==
    [by |-> "validateToken", status |-> 401, success |-> "false",
     message |-> "unauthorized", error |-> "-"]

\* proxyOptions.proxyErrorHandler
proxyErrorHandlerNext(err) ==
    [by |-> "proxyErrorHandler", status |-> 502, success |-> "-",
     message |-> "Bad gateway", error |-> "-"]
proxyErrorHandler(err) ==
    [by |-> "proxyErrorHandler", status |-> 500, success |-> "-",
     message |-> "Internal server error", error |-> err]

\* a response hook that turns a backend status of 400 and above into the
\* gateway's own failure
userResDecoratorFailing(status) ==
    IF status >= 400
    THEN [by |-> "proxyErrorHandler", status |-> 500, success |-> "-",
          message |-> "Internal server error", error |-> "-"]
    ELSE [by |-> "backend", status |-> status, success |-> "-",
          message |-> "proxyResData", error |-> "-"]

\* express-http-proxy relays the backend's status and body (userResDecorator
\* returns proxyResData as it is)
userResDecorator(status) ==
    [by |-> "backend", status |-> status, success |-> "-",
     message |-> "proxyResData", error |-> "-"]

\* String.prototype.toLowerCase on the characters of the model
LowerChar(c) == CASE c = "V" -> "v" [] OTHER -> c
Lower(s) == [i \in 1..Len(s) |-> LowerChar(s[i])]

\* req.path: the url up to its query string
RECURSIVE PathLen(_, _)
PathLen(url, i) ==
    IF i > Len(url) \/ url[i] = "?" THEN i - 1 ELSE PathLen(url, i + 1)
Path(url) == SubSeq(url, 1, PathLen(url, 1))

\* express's match of a mount path: case-insensitive (the router's default),
\* a prefix of the path that ends at the path's end or at a "/"
MountMatches(prefix, url) ==
    LET p == Path(url) IN
    /\ Len(p) >= Len(prefix)
    /\ Lower(SubSeq(p, 1, Len(prefix))) = prefix
    /\ (Len(p) = Len(prefix) \/ p[Len(prefix) + 1] = "/")

\* proxyOptions.proxyReqPathResolver: req.originalUrl.replace(/^\/v1/, "/api")
proxyReqPathResolver(originalUrl) ==
    IF Len(originalUrl) >= 3 /\ SubSeq(originalUrl, 1, 3) = V1
    THEN Api \o SubSeq(originalUrl, 4, Len(originalUrl))
    ELSE originalUrl

(***************************************************************************)
(* The request-option decorators of the five mounts.  A decorator gets the *)
(* outbound headers (a copy of the inbound ones) and the inbound request;  *)
(* it returns the headers, or throws a TypeError when it reads a property  *)
(* of undefined.                                                           *)
(***************************************************************************)
Returns(h) == [threw |-> FALSE, error |-> "-", headers |-> h]
Throws(h) == [threw |-> TRUE, error |-> "TypeError", headers |-> h]

\* /v1/auth
decoratorAuth(h, srcReq, usr) == Returns([h EXCEPT !.ct = CtJson])

\* /v1/posts
decoratorPostsNoUser(h, srcReq, usr) == Returns([h EXCEPT !.ct = CtJson])
decoratorPosts(h, srcReq, usr) ==
    IF usr = None THEN Throws(h)
    ELSE Returns([h EXCEPT !.ct = CtJson, !.xuid = <<usr.userId>>])

\* /v1/media
decoratorMediaJson(h, srcReq, usr) ==
    IF usr = None THEN Throws(h)
    ELSE Returns([h EXCEPT !.ct = CtJson, !.xuid = <<usr.userId>>])
decoratorMedia(h, srcReq, usr) ==
    IF usr = None THEN Throws(h)
    ELSE IF srcReq.ct = Absent THEN Throws(h)
    ELSE IF ~StartsWith(srcReq.ct, "multipart/form-data")
         THEN Returns([h EXCEPT !.ct = CtJson, !.xuid = <<usr.userId>>])
         ELSE Returns([h EXCEPT !.xuid = <<usr.userId>>])

\* /v1/search
\* the search decorator without the x-user-id assignment
decoratorSearchKeepsHeader(h, srcReq, usr) ==
    IF usr = None THEN Throws(h)
    ELSE Returns([h EXCEPT !.ct = CtJson])
decoratorSearch(h, srcReq, usr) ==
    IF usr = None THEN Throws(h)
    ELSE Returns([h EXCEPT !.ct = CtJson, !.xuid = <<usr.userId>>])

\* /v1/profile
decoratorProfile(h, srcReq, usr) ==
    IF usr = None THEN Throws(h)
    ELSE Returns([h EXCEPT !.ct = CtJson, !.xuid = <<usr.userId>>])

proxyReqOptDecorator(backend, h, srcReq, usr) ==
    CASE backend = "identity" -> decoratorAuth(h, srcReq, usr)
      [] backend = "post" -> decoratorPosts(h, srcReq, usr)
      [] backend = "media" -> decoratorMedia(h, srcReq, usr)
      [] backend = "search" -> decoratorSearch(h, srcReq, usr)
      [] backend = "profile" -> decoratorProfile(h, srcReq, usr)

(***************************************************************************)
(* The mounts, in the order of server.js: the prefix, the backend the      *)
(* proxy is built for, whether validateToken is mounted before the proxy,  *)
(* and the proxy's parseReqBody option.                                    *)
(***************************************************************************)
RoutesOpenPosts ==
    << [prefix |-> PfxAuth, backend |-> "identity", auth |-> FALSE, parseReqBody |-> TRUE],
       [prefix |-> PfxPosts, backend |-> "post", auth |-> FALSE, parseReqBody |-> TRUE],
       [prefix |-> PfxMedia, backend |-> "media", auth |-> TRUE, parseReqBody |-> FALSE],
       [prefix |-> PfxSearch, backend |-> "search", auth |-> TRUE, parseReqBody |-> TRUE],
       [prefix |-> PfxProfile, backend |-> "profile", auth |-> TRUE, parseReqBody |-> TRUE] >>
\* the mounts with the profile proxy built for the search backend
RoutesProfileToSearch ==
    << [prefix |-> PfxAuth, backend |-> "identity", auth |-> FALSE, parseReqBody |-> TRUE],
       [prefix |-> PfxPosts, backend |-> "post", auth |-> TRUE, parseReqBody |-> TRUE],
       [prefix |-> PfxMedia, backend |-> "media", auth |-> TRUE, parseReqBody |-> FALSE],
       [prefix |-> PfxSearch, backend |-> "search", auth |-> TRUE, parseReqBody |-> TRUE],
       [prefix |-> PfxProfile, backend |-> "search", auth |-> TRUE, parseReqBody |-> TRUE] >>
\* the mounts with validateToken mounted on /v1/auth too
RoutesAuthGuarded ==
    << [prefix |-> PfxAuth, backend |-> "identity", auth |-> TRUE, parseReqBody |-> TRUE],
       [prefix |-> PfxPosts, backend |-> "post", auth |-> TRUE, parseReqBody |-> TRUE],
       [prefix |-> PfxMedia, backend |-> "media", auth |-> TRUE, parseReqBody |-> FALSE],
       [prefix |-> PfxSearch, backend |-> "search", auth |-> TRUE, parseReqBody |-> TRUE],
       [prefix |-> PfxProfile, backend |-> "profile", auth |-> TRUE, parseReqBody |-> TRUE] >>
\* the mounts followed by a catch-all mount of /v1
RoutesCatchAll ==
    << [prefix |-> PfxAuth, backend |-> "identity", auth |-> FALSE, parseReqBody |-> TRUE],
       [prefix |-> PfxPosts, backend |-> "post", auth |-> TRUE, parseReqBody |-> TRUE],
       [prefix |-> PfxMedia, backend |-> "media", auth |-> TRUE, parseReqBody |-> FALSE],
       [prefix |-> PfxSearch, backend |-> "search", auth |-> TRUE, parseReqBody |-> TRUE],
       [prefix |-> PfxProfile, backend |-> "profile", auth |-> TRUE, parseReqBody |-> TRUE],
       [prefix |-> V1, backend |-> "identity", auth |-> FALSE, parseReqBody |-> TRUE] >>
Routes ==
    << [prefix |-> PfxAuth, backend |-> "identity", auth |-> FALSE, parseReqBody |-> TRUE],
       [prefix |-> PfxPosts, backend |-> "post", auth |-> TRUE, parseReqBody |-> TRUE],
       [prefix |-> PfxMedia, backend |-> "media", auth |-> TRUE, parseReqBody |-> FALSE],
       [prefix |-> PfxSearch, backend |-> "search", auth |-> TRUE, parseReqBody |-> TRUE],
       [prefix |-> PfxProfile, backend |-> "profile", auth |-> TRUE, parseReqBody |-> TRUE] >>

\* the first mount whose path matches the url; 0 when none does
Matched(url) ==
    LET hit == {i \in 1..Len(Routes) : MountMatches(Routes[i].prefix, url)}
    IN IF hit = {} THEN 0 ELSE CHOOSE i \in hit : \A j \in hit : i <= j

\* the body express-http-proxy sends: with parseReqBody it writes the body it
\* holds; without, it pipes what is left of the request stream
ProxyBody(route, srcReq, consumed) ==
    IF route.parseReqBody THEN srcReq.body
    ELSE IF consumed THEN "none" ELSE srcReq.body

\* express.json reads the stream of a request that has a body of JSON type
IsJsonBody(q) == StartsWith(q.ct, "application/json") /\ q.body # "none"

(***************************************************************************)
(* The state machine.                                                      *)
(***************************************************************************)
Init ==
    /\ store = [k \in IPs |-> 0]
    /\ hits = [k \in IPs |-> 0]
    /\ req = [r \in Slots |-> None]
    /\ pc = [r \in Slots |-> "free"]
    /\ user = [r \in Slots |-> None]
    /\ bodyRead = [r \in Slots |-> FALSE]
    /\ checks = [r \in Slots |-> 0]
    /\ admitted = [r \in Slots |-> FALSE]
    /\ validated = [r \in Slots |-> FALSE]
    /\ out = [r \in Slots |-> None]
    /\ calls = [r \in Slots |-> 0]
    /\ fault = [r \in Slots |-> "-"]
    /\ proxyRes = [r \in Slots |-> 0]
    /\ overrun = [k \in IPs |-> FALSE]
    /\ resp = [r \in Slots |-> None]
    /\ nresp = [r \in Slots |-> 0]

\* requests of the key that have arrived and not yet met the rate limiter
Pending(key) ==
    Cardinality({r \in Slots : pc[r] \in {"cors", "json", "limit"} /\ req[r].ip = key})

\* res.status(..).json(..) (or res.end()): the response goes out and the
\* request is over
Respond(r, response) ==
    /\ resp' = [resp EXCEPT ![r] = response]
    /\ nresp' = [nresp EXCEPT ![r] = @ + 1]
    /\ pc' = [pc EXCEPT ![r] = "done"]

\* a request of Q arrives on a free slot (cap: the admission checks per key
\* the model lets arrive in one window)
Arrive(r, Q, cap) ==
    /\ pc[r] = "free"
    /\ \E q \in Q :
          /\ store[q.ip] + Pending(q.ip) < cap
          /\ req' = [req EXCEPT ![r] = q]
    /\ pc' = [pc EXCEPT ![r] = "cors"]
    /\ UNCHANGED <<store, hits, overrun, user, bodyRead, checks, admitted, validated,
                   out, calls, fault, proxyRes, resp, nresp>>

\* app.use(cors()); app.use(helmet()): cors answers a preflight itself
Cors(r) ==
    /\ pc[r] = "cors"
    /\ IF req[r].method = "OPTIONS"
       THEN Respond(r, corsPreflight)
       ELSE /\ pc' = [pc EXCEPT ![r] = "json"]
            /\ UNCHANGED <<resp, nresp>>
    /\ UNCHANGED <<store, hits, overrun, req, user, bodyRead, checks, admitted,
                   validated, out, calls, fault, proxyRes>>

\* app.use(express.json()): a body that does not parse goes to errorHandler,
\* past every middleware in between
Json(r) ==
    /\ pc[r] = "json"
    /\ bodyRead' = [bodyRead EXCEPT ![r] = IsJsonBody(req[r])]
    /\ IF IsJsonBody(req[r]) /\ req[r].body = "bytes"
       THEN Respond(r, errorHandler("SyntaxError"))
       ELSE /\ pc' = [pc EXCEPT ![r] = "limit"]
            /\ UNCHANGED <<resp, nresp>>
    /\ UNCHANGED <<store, hits, overrun, req, user, checks, admitted, validated, out,
                   calls, fault, proxyRes>>

\* a rate limiter whose handler answers 429 and then calls next()
RateLimitDenyAndNext(r) ==
    /\ pc[r] = "limit"
    /\ store' = Increment(store, keyGenerator(req[r]))
    /\ hits' = [hits EXCEPT ![keyGenerator(req[r])] = @ + 1]
    /\ checks' = [checks EXCEPT ![r] = @ + 1]
    /\ IF Exceeds(store'[keyGenerator(req[r])])
       THEN /\ resp' = [resp EXCEPT ![r] = rateLimitHandler]
            /\ nresp' = [nresp EXCEPT ![r] = @ + 1]
            /\ UNCHANGED admitted
       ELSE /\ admitted' = [admitted EXCEPT ![r] = TRUE]
            /\ UNCHANGED <<resp, nresp>>
    /\ pc' = [pc EXCEPT ![r] = "route"]
    /\ UNCHANGED <<overrun, req, user, bodyRead, validated, out, calls, fault,
                   proxyRes>>

\* app.use(rateLimitOptions): count the hit under req.ip, then deny or next()
RateLimit(r) ==
    /\ pc[r] = "limit"
    /\ store' = Increment(store, keyGenerator(req[r]))
    /\ hits' = [hits EXCEPT ![keyGenerator(req[r])] = @ + 1]
    /\ checks' = [checks EXCEPT ![r] = @ + 1]
    /\ IF Exceeds(store'[keyGenerator(req[r])])
       THEN /\ Respond(r, rateLimitHandler)
            /\ UNCHANGED admitted
       ELSE /\ admitted' = [admitted EXCEPT ![r] = TRUE]
            /\ pc' = [pc EXCEPT ![r] = "route"]
            /\ UNCHANGED <<resp, nresp>>
    /\ UNCHANGED <<overrun, req, user, bodyRead, validated, out, calls, fault,
                   proxyRes>>

\* the logging middleware, then the mounts in order: the first that matches
\* takes the request; when none does express answers 404
Route(r) ==
    /\ pc[r] = "route"
    /\ LET i == Matched(req[r].url) IN
       IF i = 0
       THEN Respond(r, notFound)
       ELSE /\ pc' = [pc EXCEPT ![r] = IF Routes[i].auth THEN "auth" ELSE "proxy"]
            /\ UNCHANGED <<resp, nresp>>
    /\ UNCHANGED <<store, hits, overrun, req, user, bodyRead, checks, admitted,
                   validated, out, calls, fault, proxyRes>>

\* validateToken (spec 4.2): a valid bearer token sets req.user to its
\* subject; anything else is answered as unauthorized
ValidateToken(r) ==
    /\ pc[r] = "auth"
    /\ IF req[r].cred.kind = "valid"
       THEN /\ user' = [user EXCEPT ![r] = [userId |-> req[r].cred.sub]]
            /\ validated' = [validated EXCEPT ![r] = TRUE]
            /\ pc' = [pc EXCEPT ![r] = "proxy"]
            /\ UNCHANGED <<resp, nresp>>
       ELSE /\ Respond(r, unauthorized)
            /\ UNCHANGED <<user, validated>>
    /\ UNCHANGED <<store, hits, overrun, req, bodyRead, checks, admitted, out, calls, fault, proxyRes>>

\* proxy(host, options): decorate the request options, resolve the path,
\* start the backend call; an exception on the way goes to proxyErrorHandler
Proxy(r) ==
    /\ pc[r] = "proxy"
    /\ LET route == Routes[Matched(req[r].url)]
           d == proxyReqOptDecorator(route.backend,
                    [ct |-> req[r].ct, xuid |-> req[r].xuid], req[r], user[r])
       IN IF d.threw
          THEN /\ Respond(r, proxyErrorHandler(d.error))
               /\ UNCHANGED <<out, calls>>
          ELSE /\ out' = [out EXCEPT ![r] =
                            [backend |-> route.backend,
                             path |-> proxyReqPathResolver(req[r].url),
                             headers |-> d.headers,
                             body |-> ProxyBody(route, req[r], bodyRead[r])]]
               /\ calls' = [calls EXCEPT ![r] = @ + 1]
               /\ pc' = [pc EXCEPT ![r] = "sent"]
               /\ UNCHANGED <<resp, nresp>>
    /\ UNCHANGED <<store, hits, overrun, req, user, bodyRead, checks, admitted, validated,
                   fault, proxyRes>>

\* the backend answers: userResDecorator logs, the answer is relayed
BackendResponds(r, status) ==
    /\ pc[r] = "sent"
    /\ proxyRes' = [proxyRes EXCEPT ![r] = status]
    /\ Respond(r, userResDecorator(status))
    /\ UNCHANGED <<store, hits, overrun, req, user, bodyRead, checks, admitted,
                   validated, out, calls, fault>>

\* the backend call fails in transport: proxyErrorHandler answers
BackendFails(r, err) ==
    /\ pc[r] = "sent"
    /\ fault' = [fault EXCEPT ![r] = err]
    /\ Respond(r, proxyErrorHandler(err))
    /\ UNCHANGED <<store, hits, overrun, req, user, bodyRead, checks, admitted,
                   validated, out, calls, proxyRes>>

\* the exchange of an answered request is discarded; its slot is free again
Release(r) ==
    /\ pc[r] = "done"
    /\ req' = [req EXCEPT ![r] = None]
    /\ pc' = [pc EXCEPT ![r] = "free"]
    /\ user' = [user EXCEPT ![r] = None]
    /\ bodyRead' = [bodyRead EXCEPT ![r] = FALSE]
    /\ checks' = [checks EXCEPT ![r] = 0]
    /\ admitted' = [admitted EXCEPT ![r] = FALSE]
    /\ validated' = [validated EXCEPT ![r] = FALSE]
    /\ out' = [out EXCEPT ![r] = None]
    /\ calls' = [calls EXCEPT ![r] = 0]
    /\ fault' = [fault EXCEPT ![r] = "-"]
    /\ proxyRes' = [proxyRes EXCEPT ![r] = 0]
    /\ resp' = [resp EXCEPT ![r] = None]
    /\ nresp' = [nresp EXCEPT ![r] = 0]
    /\ UNCHANGED <<store, hits, overrun>>

\* a store whose keys never expire: the window is over, the count stays
ExpireKeepsCount(key) ==
    /\ store[key] > 0
    /\ hits' = [hits EXCEPT ![key] = 0]
    /\ overrun' = [overrun EXCEPT ![key] = store[key] > max]
    /\ UNCHANGED <<store, req, pc, user, bodyRead, checks, admitted, validated,
                   out, calls, fault, proxyRes, resp, nresp>>

\* the key's window (windowMs) is over: Redis drops the key
Expire(key) ==
    /\ store[key] > 0
    /\ store' = [store EXCEPT ![key] = 0]
    /\ hits' = [hits EXCEPT ![key] = 0]
    /\ overrun' = [overrun EXCEPT ![key] = store[key] > max]
    /\ UNCHANGED <<req, pc, user, bodyRead, checks, admitted, validated, out,
                   calls, fault, proxyRes, resp, nresp>>

\* the pipeline over the slots S, fed the requests Q
NextFor(S, Q, cap) ==
    \/ \E r \in S : Arrive(r, Q, cap)
    \/ \E r \in S : Cors(r)
    \/ \E r \in S : Json(r)
    \/ \E r \in S : RateLimit(r)
    \/ \E r \in S : Route(r)
    \/ \E r \in S : ValidateToken(r)
    \/ \E r \in S : Proxy(r)
    \/ \E r \in S, status \in BackendStatuses : BackendResponds(r, status)
    \/ \E r \in S, err \in TransportErrors : BackendFails(r, err)
    \/ \E r \in S : Release(r)
    \/ \E key \in IPs : Expire(key)

\* one request at a time, every request of the model
Next == NextFor({"r1"}, Requests, HitCap)
Spec == Init /\ [][Next]_vars

\* one request at a time from one client address, up to beyond the quota
NextQuota == NextFor({"r1"}, QuotaRequests, max + MaxOver)
SpecQuota == Init /\ [][NextQuota]_vars

\* two requests in flight
NextLoad == NextFor(Slots, LoadRequests, LoadCap)
SpecLoad == Init /\ [][NextLoad]_vars

\* two requests in flight on the authenticated routes
NextPair == NextFor(Slots, PairRequests, LoadCap)
SpecPair == Init /\ [][NextPair]_vars

\* one request at a time; the gateway's own stages always get to run (node's
\* event loop), the backend and the clients owe nothing
NextLive == NextFor({"r1"}, LoadRequests, LoadCap)
Fairness ==
    /\ WF_vars(Cors("r1")) /\ WF_vars(Json("r1")) /\ WF_vars(RateLimit("r1"))
    /\ WF_vars(Route("r1")) /\ WF_vars(ValidateToken("r1")) /\ WF_vars(Proxy("r1"))
SpecLive == Init /\ [][NextLive]_vars /\ Fairness

(***************************************************************************)
(* Properties.                                                             *)
(***************************************************************************)
\* the prefixes that require a credential
AuthPrefixes == {PfxPosts, PfxMedia, PfxSearch, PfxProfile}

\* slot r holds a request whose url falls under one of AuthPrefixes
OnAuthRoute(r) ==
    /\ pc[r] # "free"
    /\ Matched(req[r].url) # 0
    /\ Routes[Matched(req[r].url)].prefix \in AuthPrefixes

\* slot r holds a request that carries no credential for such a url
NoCredentialOnAuthRoute(r) == OnAuthRoute(r) /\ req[r].cred = NoCred

\* the rate limiter ran for the request of slot r and denied it
Denied(r) == checks[r] >= 1 /\ ~admitted[r]

\* C1: a request for which a backend call was started was admitted by the
\* rate limiter before, and on /v1/posts, /v1/media, /v1/search and
\* /v1/profile it carries the identity of a successful token validation.
C1_DispatchedWasAdmittedAndValidated ==
    \A r \in Slots :
        calls[r] > 0 =>
            /\ checks[r] >= 1 /\ admitted[r]
            /\ OnAuthRoute(r) =>
                  /\ validated[r]
                  /\ req[r].cred.kind = "valid"
                  /\ user[r] = [userId |-> req[r].cred.sub]

\* the last request the quota admits is dispatched on an authenticated route
C1_Witness ==
    \E r \in Slots :
        calls[r] > 0 /\ OnAuthRoute(r) /\ hits[req[r].ip] = max /\ admitted[r]

\* C2: the admission check of a request admits it exactly when it is at
\* most the max-th check of its client in the window; the (max+1)-th is
\* answered by the rate limiter's handler.
C2_QuotaAdmitsThenDenies ==
    [][\A r \in Slots :
          (pc[r] = "limit" /\ pc'[r] # "limit") =>
              /\ admitted'[r] <=> hits'[req[r].ip] <= max
              /\ ~admitted'[r] => (pc'[r] = "done" /\ resp'[r].by = "rateLimit")]_vars

\* the (max+1)-th request of a window, denied
C2_Witness ==
    \E r \in Slots :
        pc[r] = "done" /\ Denied(r) /\ hits[req[r].ip] = max + 1

\* C3: a request the rate limiter denies is answered 429 with
\* {success: false, message: "Too many requests"}, once, and neither token
\* validation nor a backend call happens for it.
C3_DeniedGets429AndNoBackendCall ==
    \A r \in Slots :
        Denied(r) =>
            /\ pc[r] = "done" /\ nresp[r] = 1
            /\ resp[r].status = 429
            /\ resp[r].success = "false"
            /\ resp[r].message = "Too many requests"
            /\ ~validated[r] /\ user[r] = None
            /\ calls[r] = 0 /\ out[r] = None

\* a denied request that carries a valid credential for an authenticated
\* route
C3_Witness ==
    \E r \in Slots :
        Denied(r) /\ OnAuthRoute(r) /\ req[r].cred.kind = "valid"

\* C4 as stated: a request without credential for an authenticated route is
\* always rejected, and no backend call is made for it.
C4_NoCredentialAlwaysRejected ==
    \A r \in Slots :
        NoCredentialOnAuthRoute(r) =>
            /\ calls[r] = 0 /\ out[r] = None
            /\ pc[r] = "done" => resp[r].status >= 400

\* C4, amended: a request without credential for an authenticated route
\* never causes a backend call; it is answered before the proxy stage, with
\* a rejection (status >= 400) unless it is a preflight (OPTIONS), which
\* cors() answers 204.
C4_NoCredentialNeverForwarded ==
    \A r \in Slots :
        NoCredentialOnAuthRoute(r) =>
            /\ calls[r] = 0 /\ out[r] = None
            /\ pc[r] = "done" =>
                  /\ resp[r].by \in {"cors", "errorHandler", "rateLimit", "validateToken"}
                  /\ resp[r].by = "cors" <=> req[r].method = "OPTIONS"
                  /\ resp[r].by # "cors" => resp[r].status >= 400

\* a request without credential, rejected by validateToken
C4_Witness ==
    \E r \in Slots :
        NoCredentialOnAuthRoute(r) /\ pc[r] = "done" /\ resp[r].by = "validateToken"

\* C5: the backend request of a request with a valid credential on an
\* authenticated route carries x-user-id, equal to the credential's subject.
C5_OutboundCarriesSubject ==
    \A r \in Slots :
        (out[r] # None /\ OnAuthRoute(r) /\ req[r].cred.kind = "valid") =>
            out[r].headers.xuid = <<req[r].cred.sub>>

\* a forwarded request of subject u1 whose client sent x-user-id: u2
C5_Witness ==
    \E r \in Slots :
        /\ out[r] # None /\ OnAuthRoute(r)
        /\ req[r].cred = [kind |-> "valid", sub |-> "u1"]
        /\ req[r].xuid = <<"u2">>

\* C6: the path of every backend request is the inbound url with its leading
\* /v1 replaced by /api and the rest, query string included, unchanged.
C6_PathRewriteExact ==
    \A r \in Slots :
        out[r] # None =>
            out[r].path = Api \o SubSeq(req[r].url, 4, Len(req[r].url))

\* C7: a multipart request forwarded on the media route keeps its
\* content-type, boundary included, and its body, which the gateway has not
\* read.
C7_MultipartPassesThrough ==
    \A r \in Slots :
        (/\ out[r] # None /\ out[r].backend = "media"
         /\ StartsWith(req[r].ct, "multipart/form-data")) =>
            /\ out[r].headers.ct = req[r].ct
            /\ out[r].body = req[r].body
            /\ ~bodyRead[r]

\* a multipart upload forwarded to the media backend
C7_Witness ==
    \E r \in Slots :
        /\ out[r] # None /\ out[r].backend = "media"
        /\ req[r].ct = CtMultipart /\ req[r].body = "bytes"

\* C8: an authenticated request on the media route whose content-type does
\* not start with multipart/form-data, or is absent, is forwarded with
\* content-type application/json.
C8_NonMultipartForcedJson ==
    \A r \in Slots :
        (/\ validated[r] /\ pc[r] \in {"sent", "done"}
         /\ Routes[Matched(req[r].url)].backend = "media"
         /\ ~StartsWith(req[r].ct, "multipart/form-data")) =>
            /\ out[r] # None
            /\ out[r].headers.ct = CtJson

\* C9: a backend call that fails in transport is answered once, with 500
\* and {message: "Internal server error", error: <the error>}, and the
\* request has made one backend call.
C9_TransportFailureAnsweredOnce ==
    \A r \in Slots :
        fault[r] # "-" =>
            /\ pc[r] = "done" /\ nresp[r] = 1
            /\ resp[r].status = 500
            /\ resp[r].message = "Internal server error"
            /\ resp[r].error = fault[r]
            /\ calls[r] = 1

\* a backend call that timed out
C9_Witness == \E r \in Slots : fault[r] = "ETIMEDOUT" /\ pc[r] = "done"

\* C10: the counter of a key equals the number of admission checks of the
\* key in its window, however the checks of concurrent requests interleave.
C10_CounterCountsEveryCheck == \A k \in IPs : store[k] = hits[k]

\* two requests of one client in flight together, both checked against a
\* window that was fresh
C10_Witness ==
    /\ pc["r1"] # "free" /\ pc["r2"] # "free"
    /\ req["r1"].ip = req["r2"].ip
    /\ checks["r1"] = 1 /\ checks["r2"] = 1
    /\ hits[req["r1"].ip] = 2
    /\ store[req["r1"].ip] = 2

\* C11: the backend call of a forwarded request is bounded in time: a request
\* whose backend call is in flight is eventually answered, even when the
\* backend never responds.
C11_BackendCallTimesOut ==
    \A r \in {"r1"} : (pc[r] = "sent") ~> (pc[r] = "done")

\* C12: whatever status the backend answers, 2xx or not, the caller gets that
\* status and the backend's body, once, and proxyErrorHandler does not run; a
\* forwarded request is answered by proxyErrorHandler only after a transport
\* failure.
C12_BackendStatusRelayed ==
    \A r \in Slots :
        /\ proxyRes[r] # 0 =>
              /\ pc[r] = "done" /\ nresp[r] = 1
              /\ resp[r].by = "backend"
              /\ resp[r].status = proxyRes[r]
              /\ resp[r].message = "proxyResData"
              /\ fault[r] = "-"
        /\ (pc[r] = "done" /\ out[r] # None /\ resp[r].by = "proxyErrorHandler") =>
              (fault[r] # "-" /\ proxyRes[r] = 0)

\* a backend's own 500, relayed
C12_Witness ==
    \E r \in Slots : proxyRes[r] = 500 /\ pc[r] = "done" /\ resp[r].by = "backend"

\* the five configured prefixes
ConfiguredPrefixes == {PfxAuth} \cup AuthPrefixes

\* slot r holds a request whose path falls under none of them
UnderNoPrefix(r) ==
    /\ pc[r] # "free"
    /\ \A p \in ConfiguredPrefixes : ~MountMatches(p, req[r].url)

\* C13 as stated: a request whose path matches no configured prefix ends
\* with a 404 response and never causes a backend call.
C13_NoRouteEndsWith404 ==
    \A r \in Slots :
        UnderNoPrefix(r) =>
            /\ calls[r] = 0 /\ out[r] = None
            /\ pc[r] = "done" => resp[r].status = 404

\* C13, amended: a request whose path matches no configured prefix never
\* causes a backend call and never reaches token validation; it ends with a
\* 404 response exactly when the rate limiter admitted it, and is otherwise
\* answered before: by cors (a preflight), by the error boundary (a body
\* that does not parse) or by the rate limiter (429).
C13_NoRouteNeverForwarded ==
    \A r \in Slots :
        UnderNoPrefix(r) =>
            /\ calls[r] = 0 /\ out[r] = None /\ ~validated[r]
            /\ pc[r] = "done" =>
                  /\ admitted[r] <=> resp[r].by = "finalhandler"
                  /\ admitted[r] => resp[r].status = 404
                  /\ ~admitted[r] => resp[r].by \in {"cors", "errorHandler", "rateLimit"}

\* an admitted request to /v1/postsx, answered 404
C13_Witness ==
    \E r \in Slots :
        UnderNoPrefix(r) /\ admitted[r] /\ pc[r] = "done" /\ resp[r].status = 404

\* slot r holds a request whose path falls under /v1/auth
OnOpenRoute(r) == pc[r] # "free" /\ MountMatches(PfxAuth, req[r].url)

\* C14: token validation never runs for a request under /v1/auth: once
\* admitted it is forwarded to the identity backend whatever credential it
\* carries; under the other four prefixes a request is forwarded only with a
\* valid credential, and an admitted one without is answered by
\* validateToken.
C14_ValidationOnlyWhereRequired ==
    \A r \in Slots :
        /\ OnOpenRoute(r) =>
              /\ pc[r] # "auth" /\ ~validated[r] /\ user[r] = None
              /\ (admitted[r] /\ pc[r] \in {"sent", "done"}) =>
                    (out[r] # None /\ out[r].backend = "identity" /\ calls[r] = 1)
        /\ OnAuthRoute(r) =>
              /\ out[r] # None => (validated[r] /\ req[r].cred.kind = "valid")
              /\ (admitted[r] /\ pc[r] = "done" /\ req[r].cred.kind # "valid") =>
                    resp[r].by = "validateToken"

\* a request under /v1/auth with an expired credential, forwarded
C14_Witness ==
    \E r \in Slots :
        OnOpenRoute(r) /\ req[r].cred.kind = "expired" /\ out[r] # None

\* C15: every request meets the rate limiter exactly once, and before any
\* stage answers it: an answered request has had its client's counter
\* incremented.
C15_RateLimiterBeforeAnyResponse ==
    \A r \in Slots :
        /\ checks[r] <= 1
        /\ nresp[r] > 0 => checks[r] = 1

\* C16: the admission check of a request adds one to the counter of the
\* request's network address and changes no other counter, whatever user id
\* the request's credential carries.
C16_CounterKeyedByAddress ==
    [][\A r \in Slots :
          (pc[r] = "limit" /\ pc'[r] # "limit") =>
              store' = [store EXCEPT ![req[r].ip] = @ + 1]]_vars

\* two requests of one address, validated as different users, have counted
\* on the same counter and on no other
C16_Witness ==
    /\ pc["r1"] # "free" /\ pc["r2"] # "free"
    /\ req["r1"].ip = req["r2"].ip
    /\ validated["r1"] /\ validated["r2"]
    /\ user["r1"] # user["r2"]
    /\ store[req["r1"].ip] = 2
    /\ \A k \in IPs \ {req["r1"].ip} : store[k] = 0

\* C17: when the window of a key is over its counter is gone, without any
\* sweep by the gateway, and the first admission check of the next window
\* counts 1 and admits the request, also when the window before ended above
\* max.
C17_ExpiredWindowStartsFresh ==
    [][/\ \A k \in IPs : (hits[k] > 0 /\ hits'[k] = 0) => store'[k] = 0
       /\ \A r \in Slots :
             (pc[r] = "limit" /\ pc'[r] # "limit" /\ hits[req[r].ip] = 0) =>
                 (store'[req[r].ip] = 1 /\ admitted'[r])]_vars

\* the first request after a window in which the client was being denied,
\* admitted with count 1
C17_Witness ==
    \E r \in Slots :
        /\ pc[r] # "free" /\ overrun[req[r].ip]
        /\ checks[r] = 1 /\ admitted[r]
        /\ hits[req[r].ip] = 1 /\ store[req[r].ip] = 1

\* the backend each prefix is bound to
BoundBackend(p) ==
    CASE p = PfxAuth -> "identity"
      [] p = PfxPosts -> "post"
      [] p = PfxMedia -> "media"
      [] p = PfxSearch -> "search"
      [] p = PfxProfile -> "profile"

\* C18: a request causes at most one backend call; a forwarded request has
\* caused exactly one, its path falls under exactly one configured prefix,
\* and the call went to the backend bound to that prefix.
C18_OneCallToTheBoundBackend ==
    \A r \in Slots :
        /\ calls[r] <= 1
        /\ calls[r] = 1 <=> out[r] # None
        /\ out[r] # None =>
              LET hit == {p \in ConfiguredPrefixes : MountMatches(p, req[r].url)}
              IN /\ Cardinality(hit) = 1
                 /\ \A p \in hit : out[r].backend = BoundBackend(p)

\* a request under /v1/profile, forwarded to the profile backend
C18_Witness ==
    \E r \in Slots :
        /\ out[r] # None /\ out[r].backend = "profile"
        /\ MountMatches(PfxProfile, req[r].url)

\* C19: two forwarded requests on authenticated routes that carry the same
\* valid credential have the same outbound x-user-id, whatever x-user-id
\* each client sent (stated contrapositively: where the outbound values
\* differ, the two are not both on authenticated routes); and an outbound
\* x-user-id that is not the credential's subject but the client's own value
\* is not on an authenticated route.
C19_OutboundIdentityFromCredentialOnly ==
    /\ \A r1, r2 \in Slots :
          ( /\ out[r1] # None /\ out[r2] # None
            /\ req[r1].cred.kind = "valid"
            /\ req[r1].cred = req[r2].cred
            /\ out[r1].headers.xuid # out[r2].headers.xuid )
          => ~(OnAuthRoute(r1) /\ OnAuthRoute(r2))
    /\ \A r \in Slots :
          ( /\ out[r] # None
            /\ out[r].headers.xuid = req[r].xuid
            /\ req[r].xuid # <<req[r].cred.sub>> )
          => ~OnAuthRoute(r)

\* two forwarded requests of subject u1, on /v1/search and on another route,
\* one without an x-user-id of its own and one that sent x-user-id: u2
C19_Witness ==
    \E r1, r2 \in Slots :
        /\ r1 # r2 /\ out[r1] # None /\ out[r2] # None
        /\ req[r1].cred = [kind |-> "valid", sub |-> "u1"]
        /\ req[r2].cred = req[r1].cred
        /\ req[r1].url = UrlSearch /\ req[r2].url # UrlSearch
        /\ req[r1].xuid = <<"u2">> /\ req[r2].xuid = Absent

====
